---- MODULE Spec2Model ----
(***************************************************************************)
(* EventbriteMonitor (src/main.py): the monitoring loop, its per-event     *)
(* escalation state (call -> wait -> verify -> retry / suppress), the      *)
(* registry of monitored events and the availability classifier.           *)
(***************************************************************************)
EXTENDS Integers, Sequences, FiniteSets, TLC

\* ------------------------------------------------------------------ bounds
\* The monitored urls and the check intervals add_event is called with.
Urls == {"u1", "u2"}
Intervals == {60, 150}
\* time.time() at the start of the model, and the horizon after which the
\* loop starts no further sleep while it is still monitoring.
StartTime == 1000
MaxTime == 1190
\* Number of add_event / remove_event calls made in one behaviour.
MaxRegOps == 2
\* Entries (live or deleted) a dict keeps before CPython resizes it.
MaxEntries == 3
\* Ticket-like controls found on one page.
MaxButtons == 2

\* ------------------------------------------------------- program constants
TickSleep == 60
PageLoadWait == 10
VerifyDelay == 120
NoLastCheck == 0

\* Python's None; optional values are None or <<value>>.
None == << >>
Some(x) == << x >>
Val(o) == o[1]
\* A deleted entry of the dict's entry array.
Tomb == "<dummy>"

VARIABLES
    monitoring,        \* self.monitoring
    monitored_events,  \* self.monitored_events: url -> event_config
    entries,           \* insertion order of monitored_events (dict entry array)
    now,               \* the wall clock, time.time()
    pc,                \* position of the thread running monitor_events
    current_time,      \* monitor_events' local, read once per tick
    di_used,           \* items-iterator: dict size when the iteration began
    di_len,            \* items-iterator: items still expected
    di_pos,            \* items-iterator: index of the last entry visited
    event_url,         \* loop variable: key of the target in flight
    event_config,      \* loop variable: the dict object of the target in flight
    detached,          \* event_config is no longer the registry's object
    calls_created,     \* gateway: number of calls created (the next sid)
    reg_ops,           \* number of add_event / remove_event calls so far
    stop_pending,      \* stop_monitoring was called since the last while test
    outcome,           \* url -> what the escalation did at its last check
    ev,                \* what the last step of the loop did for its target
    page,              \* check_event_availability: the signals read off the page
    page_status        \* check_event_availability: the status built from them

vars == << monitoring, monitored_events, entries, now, pc, current_time,
           di_used, di_len, di_pos, event_url, event_config, detached,
           calls_created, reg_ops, stop_pending, outcome, ev, page,
           page_status >>

loopLocals == << current_time, di_used, di_len, di_pos, event_url,
                 event_config, detached >>

\* ------------------------------------------------------------- classifier
Button == [has_ticket_text : BOOLEAN, is_disabled : BOOLEAN]
ButtonLists == UNION {[1..n -> Button] : n \in 0..MaxButtons}
Pages == [sold_out_text : BOOLEAN, sold_out_elements : BOOLEAN,
          zero_remaining : BOOLEAN, availability_text : BOOLEAN,
          buttons : ButtonLists]

\* Variant: a disabled control counts as available.
IsEligibleMutant(b) == b.has_ticket_text
\* main.py:174  if has_ticket_text and not is_disabled
IsEligible(b) == b.has_ticket_text /\ ~b.is_disabled
AvailableButtons(buttons) == SelectSeq(buttons, IsEligible)

\* Variant: availability text does not override the sold-out signals.
IsDefinitelySoldOutMutant(p) ==
    p.sold_out_text \/ p.sold_out_elements \/ p.zero_remaining
\* main.py:190-192
IsDefinitelySoldOut(p) ==
    (p.sold_out_text \/ p.sold_out_elements \/ p.zero_remaining)
        /\ ~p.availability_text

\* Variant: an available button overrides the sold-out signals.
IsAvailableButtonOverridesMutant(p) ==
    p.availability_text \/ Len(AvailableButtons(p.buttons)) > 0
\* Variant: every button found counts, and the sold-out signals are ignored.
IsAvailableAnyButtonMutant(p) == p.availability_text \/ Len(p.buttons) > 0
\* main.py:195
IsAvailable(p) ==
    (p.availability_text \/ Len(AvailableButtons(p.buttons)) > 0)
        /\ ~IsDefinitelySoldOut(p)

\* ---------------------------------------------------------- event checker
\* The status dict, reduced to the field the loop reads ('available') and to
\* whether it carries the 'error' key.
\* main.py:197-209
PageStatus(p) == [available |-> IsAvailable(p), error |-> FALSE]

\* Variant: an error status that still reports the event as available.
ErrorStatusMutant == [available |-> TRUE, error |-> TRUE]
\* main.py:216-233  the status either except clause returns
ErrorStatus == [available |-> FALSE, error |-> TRUE]

\* The exceptions the two except clauses catch.
CheckErrors == {"RequestException", "Exception"}

\* Every way check_event_availability can end: the status it returns, and
\* the exception it caught on the way ("none": the page was classified).
CheckResults ==
    {[status |-> PageStatus(p), raised |-> "none"] : p \in Pages}
        \cup {[status |-> ErrorStatus, raised |-> k] : k \in CheckErrors}

\* ---------------------------------------------------------------- gateway
CallStatuses == {"queued", "ringing", "in-progress", "completed",
                 "failed", "busy", "no-answer", "canceled"}
QueryOutcomes == CallStatuses \cup {"GatewayError"}
PlaceOutcomes == {"created", "GatewayError"}

\* Variant: a failed status query counted as an answered call.
check_call_answeredMutant(q) == q \in {"completed", "in-progress", "GatewayError"}
\* main.py:351-357
check_call_answered(q) == q \in {"completed", "in-progress"}

\* main.py:243-265  the sid of the created call, or None
make_alert_call(place, sid) == IF place = "created" THEN Some(sid) ELSE None

\* --------------------------------------------------------------- registry
\* main.py:275-280
FreshConfig(interval) ==
    [interval |-> interval, last_check |-> NoLastCheck, last_status |-> None,
     alert_sent |-> FALSE, last_call_sid |-> None, call_made_at |-> None]

Registered == DOMAIN monitored_events
LiveEntries == {i \in 1..Len(entries) : entries[i] # Tomb}


\* ------------------------------------------------------------- escalation
\* Variant: a target holding a call more than 120 s old is processed at
\* every tick.
IsDueOrPendingMutant(cfg, t) ==
    \/ t - cfg.last_check >= cfg.interval
    \/ cfg.last_call_sid # None /\ t - Val(cfg.call_made_at) > VerifyDelay
\* Variant: the due test with > in place of >=.
IsDueMutant(cfg, t) == t - cfg.last_check > cfg.interval
\* main.py:300-302  time_since_last_check >= event_config['interval']
IsDue(cfg, t) == t - cfg.last_check >= cfg.interval

\* Variant: the trigger without the alert_sent test.
ShouldAlertMutant(cfg, status) == status.available
\* main.py:308  status['available'] and not event_config['alert_sent']
ShouldAlert(cfg, status) == status.available /\ ~cfg.alert_sent

\* Variant: a failed placement marks the alert as sent.
AfterTriggerMutant(cfg, status, call_sid, t) ==
    IF ShouldAlert(cfg, status)
    THEN IF call_sid # None
         THEN [cfg EXCEPT !.last_call_sid = call_sid, !.call_made_at = Some(t)]
         ELSE [cfg EXCEPT !.alert_sent = TRUE]
    ELSE cfg
\* main.py:308-315  the config after the trigger step, call_sid being what
\* make_alert_call returned
AfterTrigger(cfg, status, call_sid, t) ==
    IF ShouldAlert(cfg, status) /\ call_sid # None
    THEN [cfg EXCEPT !.last_call_sid = call_sid, !.call_made_at = Some(t)]
    ELSE cfg

\* main.py:318-319  a call is recorded and is more than 120 s old
ShouldVerify(cfg, t) ==
    cfg.last_call_sid # None /\ t - Val(cfg.call_made_at) > VerifyDelay

\* main.py:321-329  the config after the verify step
AfterVerify(cfg, t, answered) ==
    IF ShouldVerify(cfg, t)
    THEN IF answered
         THEN [cfg EXCEPT !.alert_sent = TRUE]
         ELSE [cfg EXCEPT !.last_call_sid = None, !.call_made_at = None]
    ELSE cfg

\* main.py:331-333
AfterUpdate(cfg, t, status) ==
    [cfg EXCEPT !.last_check = t, !.last_status = Some(status)]

\* Variant: while True.
LoopContinuesMutant == TRUE
\* main.py:294  while self.monitoring
LoopContinues == monitoring

\* ------------------------------------------------------------------ state
NoEv == [url |-> "-", due |-> FALSE, available |-> FALSE, error |-> "none",
         attempted |-> FALSE, placed |-> FALSE, queried |-> FALSE,
         answer |-> "-", prev |-> "none"]

\* main.py:38-40  the state __init__ leaves
InitMonitor ==
    /\ monitoring = FALSE
    /\ monitored_events = << >>
    /\ entries = << >>
    /\ now = StartTime
    /\ pc = "notstarted"
    /\ current_time = 0
    /\ di_used = 0
    /\ di_len = 0
    /\ di_pos = 0
    /\ event_url = "-"
    /\ event_config = FreshConfig(0)
    /\ detached = FALSE
    /\ calls_created = 0
    /\ reg_ops = 0
    /\ stop_pending = FALSE
    /\ outcome = [u \in Urls |-> "none"]
    /\ ev = NoEv

\* No page has been fetched.
Init ==
    /\ InitMonitor
    /\ page = None
    /\ page_status = None

\* ------------------------------------------------------- registry commands
\* What a registration of u discards, for the outcome record.
Discarded(u) ==
    IF u \notin Registered THEN "none"
    ELSE IF monitored_events[u].alert_sent THEN "reset_suppressed"
    ELSE IF monitored_events[u].last_call_sid # None THEN "reset_pending"
    ELSE "none"

\* Variant: a url that is registered already keeps its state.
add_eventMutant(u, interval) ==
    /\ reg_ops < MaxRegOps
    /\ u \in Registered \/ Len(entries) < MaxEntries
    /\ monitored_events' =
           [k \in Registered \cup {u} |->
               IF k \in Registered THEN monitored_events[k]
               ELSE FreshConfig(interval)]
    /\ entries' = IF u \in Registered THEN entries ELSE Append(entries, u)
    /\ outcome' = [outcome EXCEPT ![u] = Discarded(u)]
    /\ reg_ops' = reg_ops + 1
    /\ UNCHANGED << page, page_status >>
    /\ UNCHANGED << monitoring, now, pc, current_time, di_used, di_len, di_pos,
                    event_url, event_config, detached, calls_created,
                    stop_pending, ev >>
\* main.py:267-281
add_event(u, interval) ==
    /\ reg_ops < MaxRegOps
    /\ u \in Registered \/ Len(entries) < MaxEntries
    /\ monitored_events' =
           [k \in Registered \cup {u} |->
               IF k = u THEN FreshConfig(interval) ELSE monitored_events[k]]
    /\ entries' = IF u \in Registered THEN entries ELSE Append(entries, u)
    /\ detached' = (detached \/ (pc = "check" /\ event_url = u))
    /\ outcome' = [outcome EXCEPT ![u] = Discarded(u)]
    /\ reg_ops' = reg_ops + 1
    /\ UNCHANGED << page, page_status >>
    /\ UNCHANGED << monitoring, now, pc, current_time, di_used, di_len, di_pos,
                    event_url, event_config, calls_created, stop_pending, ev >>

\* main.py:283-287
remove_event(u) ==
    /\ reg_ops < MaxRegOps
    /\ u \in Registered
    /\ monitored_events' = [k \in Registered \ {u} |-> monitored_events[k]]
    /\ entries' = [i \in 1..Len(entries) |->
                      IF entries[i] = u THEN Tomb ELSE entries[i]]
    /\ detached' = (detached \/ (pc = "check" /\ event_url = u))
    /\ outcome' = [outcome EXCEPT ![u] = "none"]
    /\ reg_ops' = reg_ops + 1
    /\ UNCHANGED << page, page_status >>
    /\ UNCHANGED << monitoring, now, pc, current_time, di_used, di_len, di_pos,
                    event_url, event_config, calls_created, stop_pending, ev >>

\* main.py:367-370
stop_monitoring ==
    /\ monitoring' = FALSE
    /\ stop_pending' = TRUE
    /\ UNCHANGED << page, page_status >>
    /\ UNCHANGED << monitored_events, entries, now, pc, loopLocals,
                    calls_created, reg_ops, outcome, ev >>


\* --------------------------------------------------------- monitor_events
\* main.py:289-292  entry of monitor_events (start_monitoring calls it)
monitor_events ==
    /\ pc \in {"notstarted", "returned"}
    /\ now <= MaxTime
    /\ monitoring' = TRUE
    /\ pc' = "while"
    /\ UNCHANGED << page, page_status >>
    /\ UNCHANGED << monitored_events, entries, now, loopLocals, calls_created,
                    reg_ops, stop_pending, outcome, ev >>

\* main.py:294-297  the while test; a tick reads the clock once and starts
\* iterating over monitored_events.items()
WhileTest ==
    /\ pc = "while"
    /\ IF LoopContinues
       THEN /\ current_time' = now
            /\ di_used' = Cardinality(Registered)
            /\ di_len' = Cardinality(Registered)
            /\ di_pos' = 0
            /\ pc' = "for"
       ELSE /\ pc' = "returned"
            /\ UNCHANGED << current_time, di_used, di_len, di_pos >>
    /\ stop_pending' = FALSE
    /\ UNCHANGED << page, page_status >>
    /\ UNCHANGED << monitoring, monitored_events, entries, now, event_url,
                    event_config, detached, calls_created, reg_ops, outcome, ev >>

\* The entries the iterator has not passed yet.
EntriesAhead == {i \in LiveEntries : i > di_pos}
NextEntry == CHOOSE i \in EntriesAhead : \A j \in EntriesAhead : i <= j

\* main.py:297-302  the for statement fetches the next item (CPython's
\* dictiter_iternextitem: RuntimeError when the dict changed size or holds
\* more items than when the iteration began), then the due test of the body.
ForNext ==
    /\ pc = "for"
    /\ IF di_used # Cardinality(Registered)
       THEN /\ pc' = "raised"
            /\ UNCHANGED << di_len, di_pos, event_url, event_config, detached, ev >>
       ELSE IF EntriesAhead = {}
       THEN /\ pc' = "sleep"
            /\ ev' = NoEv
            /\ UNCHANGED << di_len, di_pos, event_url, event_config, detached >>
       ELSE IF di_len = 0
       THEN /\ pc' = "raised"
            /\ UNCHANGED << di_len, di_pos, event_url, event_config, detached, ev >>
       ELSE LET url == entries[NextEntry]
                cfg == monitored_events[url]
            IN  /\ di_pos' = NextEntry
                /\ di_len' = di_len - 1
                /\ event_url' = url
                /\ event_config' = cfg
                /\ detached' = FALSE
                /\ IF IsDue(cfg, current_time)
                   THEN /\ pc' = "check"
                        /\ UNCHANGED ev
                   ELSE /\ pc' = "for"
                        /\ ev' = [NoEv EXCEPT !.url = url, !.prev = outcome[url]]
    /\ UNCHANGED << page, page_status >>
    /\ UNCHANGED << monitoring, monitored_events, entries, now, current_time,
                    di_used, calls_created, reg_ops, stop_pending, outcome >>

\* What the escalation of one check amounts to, for the outcome record.
EscalationOutcome(prev, attempted, placed, queried, answered) ==
    IF queried THEN (IF answered THEN "answered" ELSE "not_answered")
    ELSE IF attempted THEN (IF placed THEN "placed" ELSE "place_failed")
    ELSE prev

\* main.py:304-333  the body for a due target: check_event_availability
\* ends with result, then trigger, verify and update on event_config.
\* place and query are what the gateway answers if it is asked. A page that
\* was fetched costs the 10 s wait of main.py:101.
\* Variant: an exception met while the target is checked leaves the loop.
AfterBodyMutant(raised) == IF raised # "none" THEN "raised" ELSE "for"
\* main.py:216-233, 335-336  every exception of the body is caught, by the
\* checker's except clauses or by the loop's: the for statement goes on
AfterBody(raised) == "for"

ProcessTarget(result, place, query) ==
    LET status == result.status
        attempted == ShouldAlert(event_config, status)
        call_sid == IF attempted
                    THEN make_alert_call(place, calls_created + 1)
                    ELSE None
        placed == call_sid # None
        c1 == AfterTrigger(event_config, status, call_sid, current_time)
        queried == ShouldVerify(c1, current_time)
        answered == queried /\ check_call_answered(query)
        c2 == AfterVerify(c1, current_time, answered)
        c3 == AfterUpdate(c2, current_time, status)
        escalated == EscalationOutcome(outcome[event_url], attempted, placed,
                                       queried, answered)
    IN  /\ pc = "check"
        \* an answer of the gateway counts only if the gateway is asked
        /\ attempted \/ place = "created"
        /\ queried \/ query = "completed"
        /\ event_config' = c3
        /\ monitored_events' =
               IF detached THEN monitored_events
               ELSE [monitored_events EXCEPT ![event_url] = c3]
        /\ calls_created' = IF placed THEN calls_created + 1 ELSE calls_created
        /\ now' = IF result.raised = "none" THEN now + PageLoadWait ELSE now
        /\ outcome' = IF detached THEN outcome
                      ELSE [outcome EXCEPT ![event_url] = escalated]
        /\ ev' = [url |-> event_url, due |-> TRUE,
                  available |-> status.available, error |-> result.raised,
                  attempted |-> attempted, placed |-> placed,
                  queried |-> queried,
                  answer |-> IF queried THEN query ELSE "-",
                  prev |-> outcome[event_url]]
        /\ pc' = AfterBody(result.raised)
        /\ UNCHANGED << page, page_status >>
        /\ UNCHANGED << monitoring, entries, current_time, di_used, di_len,
                        di_pos, event_url, detached, reg_ops, stop_pending >>

\* main.py:338-339  time.sleep(60), then back to the while test
Sleep ==
    /\ pc = "sleep"
    /\ now + TickSleep <= MaxTime \/ ~monitoring
    /\ now' = now + TickSleep
    /\ pc' = "while"
    /\ UNCHANGED << page, page_status >>
    /\ UNCHANGED << monitoring, monitored_events, entries, loopLocals,
                    calls_created, reg_ops, stop_pending, outcome, ev >>

\* ---------------------------------------------------------- specification
LoopStep ==
    \/ monitor_events
    \/ WhileTest
    \/ ForNext
    \/ \E result \in CheckResults, place \in PlaceOutcomes, query \in QueryOutcomes :
           ProcessTarget(result, place, query)
    \/ Sleep

\* The loop is not iterating over the registry.
BetweenTicks == pc \notin {"for", "check"}

\* The registry is changed between ticks only, never while the loop iterates
\* over it (main() registers every event before start_monitoring).
RegistryCommand ==
    \/ \E u \in Urls, interval \in Intervals :
           BetweenTicks /\ add_event(u, interval)
    \/ \E u \in Urls : BetweenTicks /\ remove_event(u)

\* The registry is changed at any moment, from another thread.
ConcurrentRegistryCommand ==
    \/ \E u \in Urls, interval \in Intervals : add_event(u, interval)
    \/ \E u \in Urls : remove_event(u)

Next == LoopStep \/ RegistryCommand \/ stop_monitoring
Spec == Init /\ [][Next]_vars

\* The thread running monitor_events keeps running.
FairSpec == Spec /\ WF_vars(LoopStep)

NextConc == LoopStep \/ ConcurrentRegistryCommand \/ stop_monitoring
SpecConc == Init /\ [][NextConc]_vars

\* -------------------------------------------- every call is acknowledged
\* The checks that find the event available.
AvailableResults == {r \in CheckResults : r.status.available}

\* The loop in an environment where every check finds the event available,
\* every call is created and the gateway reports every call as completed.
AckLoopStep ==
    \/ monitor_events
    \/ WhileTest
    \/ ForNext
    \/ \E result \in AvailableResults :
           ProcessTarget(result, "created", "completed")
    \/ Sleep

\* main.py:425-436  the events are registered before the loop is started
RegisterBeforeStart ==
    \E u \in Urls, interval \in Intervals :
        pc = "notstarted" /\ add_event(u, interval)

NextAck == AckLoopStep \/ RegisterBeforeStart
SpecAck == Init /\ [][NextAck]_vars

\* ------------------------------------------------- the classifier by itself
monitorVars == << monitoring, monitored_events, entries, now, pc,
                  current_time, di_used, di_len, di_pos, event_url,
                  event_config, detached, calls_created, reg_ops,
                  stop_pending, outcome, ev >>

\* main.py:197-209  the fields of the status dict the classifier computes
ClassifiedStatus(p) ==
    [available |-> IsAvailable(p),
     sold_out |-> IsDefinitelySoldOut(p),
     total_buttons_found |-> Len(p.buttons),
     available_buttons |-> Len(AvailableButtons(p.buttons))]

\* main.py:100-187  a page has been fetched and its signals read
InitClassifier ==
    /\ InitMonitor
    /\ page \in {Some(p) : p \in Pages}
    /\ page_status = None

\* main.py:189-209  the final determination and the status dict
Classify ==
    /\ page # None
    /\ page_status = None
    /\ page_status' = Some(ClassifiedStatus(Val(page)))
    /\ UNCHANGED << page, monitorVars >>

NextClassifier == Classify
SpecClassifier == InitClassifier /\ [][NextClassifier]_vars

\* ----------------------------------------------------------------- claims
\* IDLE: no pending call and not suppressed.
Idle(cfg) == cfg.last_call_sid = None /\ ~cfg.alert_sent
\* The step in which the loop finishes the body for the target in flight.
Processes == pc = "check" /\ pc' = "for"
\* The recorded call of cfg is more than 120 s old at time t.
PendingOlderThanDelay(cfg, t) ==
    cfg.last_call_sid # None /\ t - Val(cfg.call_made_at) > VerifyDelay

\* C1: a call is placed for a target only when the target is IDLE, that is
\* with no pending call and not suppressed (a new call only after the previous
\* one was verified as not answered).
C1_CallOnlyWhenIdle ==
    [][(Processes /\ ev'.placed) => Idle(event_config)]_vars

\* C2: whenever a processed target holds a pending call placed more than 120 s
\* before the tick, the gateway is queried for a call's status in that tick,
\* whatever the status of the check, so that the pending call is not replaced
\* or dropped unverified.
C2_PendingCallVerified ==
    [][(Processes /\ PendingOlderThanDelay(event_config, current_time))
          => ev'.queried]_vars

\* C3: once alert_sent is set for a target, every later step of the loop keeps
\* it set and no step of the loop asks the gateway for another call for that
\* target, whatever the status and the gateway's answers (steps of add_event
\* and remove_event, which replace the target's state, are not loop steps).
C3_SuppressionPermanent ==
    [][\A u \in Registered :
          (monitored_events[u].alert_sent /\ reg_ops' = reg_ops) =>
              /\ u \in DOMAIN monitored_events'
              /\ monitored_events'[u].alert_sent
              /\ (Processes /\ event_url = u) =>
                    (~ev'.attempted /\ calls_created' = calls_created)]_vars

\* C3 witness: a suppressed target was checked, found available, and no call
\* was attempted.
C3_Witness ==
    /\ ev.due /\ ev.available /\ ~ev.attempted
    /\ ev.url \in Registered
    /\ monitored_events[ev.url].alert_sent

\* C4: no second call is placed for a target before 120 s have elapsed since
\* the placedAt of the call it still records.
C4_NoSecondCallWithinDelay ==
    [][(Processes /\ ev'.placed /\ event_config.last_call_sid # None) =>
          current_time - Val(event_config.call_made_at) >= VerifyDelay]_vars

\* C5: when the pending call (older than 120 s) of a target that is not
\* suppressed is verified and the gateway reports anything but completed or
\* in-progress, or the query fails, the target is IDLE afterwards; and at the
\* next due check whose status is available the gateway is asked for a new
\* call, which is recorded when it is created.
C5_NotAnsweredBackToIdle ==
    [][Processes =>
          /\ (~event_config.alert_sent /\ ev'.queried
                /\ ev'.answer \notin {"completed", "in-progress"})
             => (Idle(event_config') /\ Idle(monitored_events'[event_url]))
          /\ (ev'.prev = "not_answered" /\ Idle(event_config) /\ ev'.available)
             => /\ ev'.attempted
                /\ ev'.placed => event_config'.last_call_sid # None]_vars

\* C5 witness: the first available check after a verification that found the
\* call not answered placed a new call.
C5_Witness ==
    /\ ev.prev = "not_answered" /\ ev.available /\ ev.placed
    /\ ev.url \in Registered
    /\ monitored_events[ev.url].last_call_sid # None
    /\ ~monitored_events[ev.url].alert_sent

\* C6: no target ever has alert_sent set together with a recorded call.
C6_SuppressedHasNoPendingCall ==
    \A u \in Registered :
        ~(monitored_events[u].alert_sent
            /\ monitored_events[u].last_call_sid # None)

\* C7: when the gateway fails to create the call for an IDLE target, the
\* target stays IDLE, and the next due check whose status is available asks
\* the gateway for a call again.
C7_PlacementFailureStaysIdle ==
    [][(Processes /\ Idle(event_config)) =>
          /\ (ev'.attempted /\ ~ev'.placed)
             => (Idle(event_config') /\ Idle(monitored_events'[event_url]))
          /\ (ev'.prev = "place_failed" /\ ev'.available) => ev'.attempted]_vars

\* C7 witness: a call was attempted again at the first available check after
\* a failed placement, failed again, and the target is still IDLE.
C7_Witness ==
    /\ ev.prev = "place_failed" /\ ev.attempted /\ ~ev.placed
    /\ ev.url \in Registered
    /\ Idle(monitored_events[ev.url])

\* C8: a check always comes back with a status; a status that carries an error
\* has available = FALSE, and the step that receives it asks the gateway for
\* no call.
C8_ErrorStatusPlacesNoCall ==
    [][(pc = "check" /\ pc' # "check") =>
          /\ Processes
          /\ event_config'.last_status # None
          /\ Val(event_config'.last_status).error =>
                /\ ~Val(event_config'.last_status).available
                /\ ~ev'.attempted
                /\ calls_created' = calls_created]_vars

\* C8 witness: an IDLE target's check failed with a fetch error and it is
\* still IDLE, with no call attempted.
C8_Witness ==
    /\ ev.due /\ ev.error = "RequestException" /\ ~ev.attempted
    /\ ev.url \in Registered
    /\ Idle(monitored_events[ev.url])
    /\ monitored_events[ev.url].last_status = Some(ErrorStatus)

\* C9: the loop checks a target it visits iff current_time - last_check >=
\* interval, the check sets last_check to the tick's time, and when a tick's
\* iteration ends every registered target either was checked in it or was not
\* due in it.
C9_CheckedIffDue ==
    [][/\ (pc = "for" /\ pc' = "check") =>
              current_time - event_config'.last_check >= event_config'.interval
       /\ (pc = "for" /\ pc' = "for" /\ di_pos' # di_pos) =>
              current_time - event_config'.last_check < event_config'.interval
       /\ Processes => monitored_events'[event_url].last_check = current_time
       /\ (pc = "for" /\ pc' = "sleep") =>
              \A u \in Registered :
                  \/ monitored_events[u].last_check = current_time
                  \/ current_time - monitored_events[u].last_check
                        < monitored_events[u].interval]_vars

\* C9 witness: a tick has ended in which one target was checked and another,
\* checked in an earlier tick, was left alone as not yet due.
C9_Witness ==
    /\ pc = "sleep"
    /\ \E u, v \in Registered :
          /\ monitored_events[u].last_check = current_time
          /\ monitored_events[v].last_check # NoLastCheck
          /\ monitored_events[v].last_check < current_time

\* C10 as claimed: whenever stop_monitoring has been called, also before
\* monitor_events starts, the next while test makes monitor_events return.
C10_StopAlwaysHonoured ==
    [][(stop_pending /\ pc = "while") => pc' \in {"while", "returned"}]_vars

Running == pc \in {"while", "for", "check", "sleep"}

\* C10 amended: when stop_monitoring is called while monitor_events is
\* running, monitor_events eventually returns; it starts no further tick, and
\* it returns at the while test only, never from the middle of an iteration.
C10_StopWhileRunning ==
    /\ (Running /\ ~monitoring) ~> (pc = "returned")
    /\ [][(~monitoring /\ pc = "while") => pc' \in {"while", "returned"}]_vars
    /\ [][(pc' = "returned" /\ pc # "returned") => pc = "while"]_vars

\* C10 witness: stop_monitoring was called while a target is in flight.
C10_Witness == pc = "check" /\ ~monitoring /\ stop_pending


\* C11: a register or deregister issued by another thread while the loop is
\* in the middle of a tick never changes the registry under the iteration, so
\* the for statement never raises and monitor_events is never terminated by it.
C11_LoopNeverAborted == pc # "raised"


\* The loop step e met a failure: the check raised, the call could not be
\* placed, or the status query failed.
Failed(e) ==
    \/ e.error # "none"
    \/ e.attempted /\ ~e.placed
    \/ e.answer = "GatewayError"

\* C12: a failure met while one target is processed (checker error, placement
\* error, status query error) leaves the loop on the for statement with the
\* iteration intact, the iteration then goes on to the next target or to the
\* sleep before the next tick, and monitor_events is never left by an exception.
C12_FailureIsolated ==
    [][/\ (pc = "check" /\ pc' # "check" /\ Failed(ev')) =>
              /\ pc' = "for"
              /\ monitoring' = monitoring
              /\ << di_used, di_len, di_pos, entries >>' =
                     << di_used, di_len, di_pos, entries >>
              /\ DOMAIN monitored_events' = DOMAIN monitored_events
       /\ (pc = "for" /\ Failed(ev) /\ pc' # "for") => pc' \in {"check", "sleep"}
       /\ pc' # "raised"]_vars
\* A target was checked with an error status in this tick, and a target later
\* in the registry has been checked in the same tick.
C12_Witness ==
    /\ pc = "for"
    /\ ev.due
    /\ \E i, j \in LiveEntries :
          /\ i < j
          /\ entries[j] = ev.url
          /\ monitored_events[entries[i]].last_check = current_time
          /\ monitored_events[entries[i]].last_status = Some(ErrorStatus)


\* The page has been classified.
Classified == page # None /\ page_status # None

\* C13: for every combination of the classifier's inputs the status equals the
\* reference: a control is eligible iff it has ticket text and is not disabled,
\* sold_out is (sold-out text or element or zero remaining) and no availability
\* text, and available is (availability text or at least one eligible control)
\* and not sold_out.
C13_MatchesReference ==
    Classified =>
        LET p == Val(page)
            eligible == {i \in DOMAIN p.buttons :
                            /\ p.buttons[i].has_ticket_text = TRUE
                            /\ p.buttons[i].is_disabled = FALSE}
            soldOutSignal == TRUE \in {p.sold_out_text, p.sold_out_elements,
                                       p.zero_remaining}
            definitelySoldOut == IF p.availability_text THEN FALSE
                                 ELSE soldOutSignal
            available == IF definitelySoldOut THEN FALSE
                         ELSE p.availability_text \/ eligible # {}
        IN  /\ Val(page_status).available = available
            /\ Val(page_status).sold_out = definitelySoldOut
            /\ Val(page_status).available_buttons = Cardinality(eligible)
\* A page with a sold-out signal, availability text, an eligible and a
\* disabled control has been classified.
C13_Witness ==
    /\ Classified
    /\ Val(page).sold_out_text
    /\ Val(page).availability_text
    /\ Len(Val(page).buttons) = 2
    /\ Val(page_status).available_buttons = 1
    /\ Val(page_status).available

C15_AvailabilityTextWins ==
    (Classified /\ Val(page).availability_text) => Val(page_status).available
\* A page with availability text, all three sold-out signals and no eligible
\* control has been classified as available.
C15_Witness ==
    /\ Classified
    /\ Val(page).availability_text
    /\ Val(page).sold_out_text
    /\ Val(page).sold_out_elements
    /\ Val(page).zero_remaining
    /\ Val(page_status).total_buttons_found > 0
    /\ Val(page_status).available_buttons = 0
    /\ Val(page_status).available

\* C16: a page with a sold-out signal, no purchase-intent phrase and no
\* eligible control is classified as not available, however many controls
\* that are disabled or lack ticket text it has.
C16_SoldOutWithoutIntent ==
    (/\ Classified
     /\ \/ Val(page).sold_out_text
        \/ Val(page).sold_out_elements
        \/ Val(page).zero_remaining
     /\ ~Val(page).availability_text
     /\ \A i \in DOMAIN Val(page).buttons :
            \/ ~Val(page).buttons[i].has_ticket_text
            \/ Val(page).buttons[i].is_disabled)
        => ~Val(page_status).available
\* A page with zero remaining as its only sold-out signal, no availability text
\* and two controls, one disabled and one without ticket text, has been
\* classified as not available.
C16_Witness ==
    /\ Classified
    /\ Val(page).zero_remaining
    /\ ~Val(page).sold_out_text
    /\ ~Val(page).sold_out_elements
    /\ ~Val(page).availability_text
    /\ Val(page_status).total_buttons_found = 2
    /\ \E i, j \in DOMAIN Val(page).buttons :
          /\ Val(page).buttons[i].has_ticket_text
          /\ Val(page).buttons[i].is_disabled
          /\ ~Val(page).buttons[j].has_ticket_text
    /\ ~Val(page_status).available


\* C17: where every check finds the target available, every placement succeeds
\* and the gateway reports every call as answered, the target becomes
\* suppressed: a check made more than 120 s after the target's call was placed
\* has the call verified and leaves alert_sent set, so that the calls end.
C17_AcknowledgedCallSuppresses ==
    [][(Processes /\ PendingOlderThanDelay(event_config, current_time))
          => event_config'.alert_sent]_vars


\* C18: a step of the loop changes the state of a target only while it
\* processes that target and only if the target was due at the tick's time; a
\* call is placed or a call's status queried only in the processing of a due
\* target; and the step that skips a target that is not due checks nothing,
\* places and queries no call and changes no target's state, also when the
\* target holds a pending call more than 120 s old.
C18_NotDueUntouched ==
    [][/\ \A u \in Registered :
              (/\ reg_ops' = reg_ops
               /\ \/ u \notin DOMAIN monitored_events'
                  \/ monitored_events'[u] # monitored_events[u]) =>
                  /\ pc = "check"
                  /\ event_url = u
                  /\ current_time - monitored_events[u].last_check
                         >= monitored_events[u].interval
       /\ (calls_created' # calls_created \/ (ev' # ev /\ ev'.queried)) =>
              /\ pc = "check"
              /\ current_time - event_config.last_check >= event_config.interval
       /\ (pc = "for" /\ pc' = "for" /\ di_pos' # di_pos) =>
              /\ ~ev'.due /\ ~ev'.attempted /\ ~ev'.queried
              /\ monitored_events' = monitored_events
              /\ calls_created' = calls_created
              /\ now' = now]_vars
\* The loop has just skipped a target that is not due and holds a pending call
\* more than 120 s old.
C18_Witness ==
    /\ pc = "for"
    /\ ev.url \in Registered
    /\ ~ev.due
    /\ PendingOlderThanDelay(monitored_events[ev.url], current_time)
    /\ ~monitored_events[ev.url].alert_sent


\* C19: add_event leaves the url it registers in the fresh state (last_check
\* 0, no status, alert_sent False, no call recorded) and every other target as
\* it was, also when the url was registered already; a fresh target is due at
\* the first tick that visits it; and when a target re-registered while
\* suppressed or with a pending call is found available by a check of its new
\* state, a call is placed for it again.
C19_RegisterResets ==
    [][/\ (reg_ops' = reg_ops + 1 /\ Registered \subseteq DOMAIN monitored_events')
              => \E u \in DOMAIN monitored_events', i \in Intervals :
                     /\ monitored_events'[u] =
                            [interval |-> i, last_check |-> 0,
                             last_status |-> None, alert_sent |-> FALSE,
                             last_call_sid |-> None, call_made_at |-> None]
                     /\ DOMAIN monitored_events' = Registered \cup {u}
                     /\ \A v \in Registered \ {u} :
                            monitored_events'[v] = monitored_events[v]
       /\ (pc = "for" /\ di_pos' # di_pos /\ event_config'.last_check = 0)
              => pc' = "check"
       /\ (/\ Processes
           /\ ~detached
           /\ ev'.prev \in {"reset_suppressed", "reset_pending"}
           /\ ev'.available)
              => ev'.attempted]_vars
\* A target that was suppressed and then registered again has been checked,
\* found available, and a call has been placed for it.
C19_Witness ==
    /\ pc = "for"
    /\ ev.due
    /\ ev.prev = "reset_suppressed"
    /\ ev.placed

====
